---- MODULE Spec2Model ----
(***************************************************************************)
(* Model of src/app.py: the Streamlit inventory dashboard.  One run of the *)
(* script is one attempt: fetch the published workbook, read it without    *)
(* header, check the column count, bind and rename the columns, normalise  *)
(* the text columns, drop rows with missing values, coerce the quantity    *)
(* column, then (after a successful load) read the widgets, filter the     *)
(* frame and build the aggregated views.                                   *)
(*                                                                         *)
(* Text is a sequence of one-character strings, so that strip, upper, the  *)
(* numeric parse and the lexicographic order of group keys are computed.   *)
(* A cell is NA (missing), Str(text), Num(integer) or Inf (a float that    *)
(* is not finite; only pd.to_numeric produces it).                         *)
(***************************************************************************)
EXTENDS Integers, Sequences, FiniteSets, TLC

\* ------------------------------------------------------------ bounds
\* Largest number of data rows (rows after the header row) of a workbook.
MaxRows == 2
\* Largest number of columns of a workbook.
MaxCols == 5

\* ------------------------------------------------------------ text
\* The characters of the model in code-point order.
Alphabet ==
    << " ", "#", "+", "-", ".", "/",
       "0", "1", "2", "3", "4", "5", "6", "7", "8", "9", "<", ">",
       "A", "B", "C", "D", "E", "F", "G", "H", "I", "J", "K", "L", "M",
       "N", "O", "P", "Q", "R", "S", "T", "U", "V", "W", "X", "Y", "Z",
       "a", "b", "c", "d", "e", "f", "g", "h", "i", "j", "k", "l", "m",
       "n", "o", "p", "q", "r", "s", "t", "u", "v", "w", "x", "y", "z" >>

Chars == {Alphabet[i] : i \in 1..Len(Alphabet)}

\* Position of a character in Alphabet: the order str comparison uses.
CharCode == [c \in Chars |-> CHOOSE i \in 1..Len(Alphabet) : Alphabet[i] = c]

Digits == <<"0", "1", "2", "3", "4", "5", "6", "7", "8", "9">>

IsDigit(c) == \E i \in 1..Len(Digits) : Digits[i] = c

DigitValue(c) == (CHOOSE i \in 1..Len(Digits) : Digits[i] = c) - 1

IsLower(c) == CharCode[c] >= CharCode["a"] /\ CharCode[c] <= CharCode["z"]

IsSpace(c) == c = " "

\* str.upper on one character.
UpperChar(c) ==
    IF IsLower(c) THEN Alphabet[CharCode[c] - CharCode["a"] + CharCode["A"]] ELSE c

\* str.lower on one character.
LowerChar(c) ==
    IF CharCode[c] >= CharCode["A"] /\ CharCode[c] <= CharCode["Z"]
    THEN Alphabet[CharCode[c] - CharCode["A"] + CharCode["a"]]
    ELSE c

\* Series.str.upper()
Upper(s) == [i \in 1..Len(s) |-> UpperChar(s[i])]

Lower(s) == [i \in 1..Len(s) |-> LowerChar(s[i])]

RECURSIVE LStrip(_)
LStrip(s) == IF s # <<>> /\ IsSpace(Head(s)) THEN LStrip(Tail(s)) ELSE s

RECURSIVE RStrip(_)
RStrip(s) ==
    IF s # <<>> /\ IsSpace(s[Len(s)]) THEN RStrip(SubSeq(s, 1, Len(s) - 1)) ELSE s

\* Series.str.strip()
Strip(s) == RStrip(LStrip(s))

\* Lexicographic order of two texts (str.__lt__).
RECURSIVE TextLess(_, _)
TextLess(a, b) ==
    IF b = <<>> THEN FALSE
    ELSE IF a = <<>> THEN TRUE
    ELSE IF Head(a) = Head(b) THEN TextLess(Tail(a), Tail(b))
    ELSE CharCode[Head(a)] < CharCode[Head(b)]

\* str(n) for an integer.
RECURSIVE NatToText(_)
NatToText(n) ==
    IF n < 10 THEN <<Digits[n + 1]>>
    ELSE NatToText(n \div 10) \o <<Digits[(n % 10) + 1]>>

IntToText(n) == IF n < 0 THEN <<"-">> \o NatToText(0 - n) ELSE NatToText(n)

RECURSIVE DigitsToNat(_, _)
DigitsToNat(s, acc) ==
    IF s = <<>> THEN acc ELSE DigitsToNat(Tail(s), acc * 10 + DigitValue(Head(s)))

AllDigits(s) == s # <<>> /\ \A i \in 1..Len(s) : IsDigit(s[i])

\* ------------------------------------------------------------ cells
NA == [k |-> "na"]

Inf == [k |-> "inf"]

Str(s) == [k |-> "str", s |-> s]

Num(n) == [k |-> "num", n |-> n]

IsNA(c) == c.k = "na"

None == [k |-> "none"]

\* ------------------------------------------------------------ frames
\* A DataFrame: its column labels in order and its rows; a row keeps its
\* index label idx and maps each column label to a cell.
Frame(columns, rows) == [columns |-> columns, rows |-> rows]

SeqRange(s) == {s[i] : i \in 1..Len(s)}

\* ------------------------------------------------------------ the workbook
\* Strings pd.read_excel reads as missing by default (keep_default_na).
DefaultNaValues ==
    { <<>>,
      <<"#", "N", "/", "A">>,
      <<"#", "N", "/", "A", " ", "N", "/", "A">>,
      <<"#", "N", "A">>,
      <<"-", "1", ".", "#", "I", "N", "D">>,
      <<"-", "1", ".", "#", "Q", "N", "A", "N">>,
      <<"-", "N", "a", "N">>,
      <<"-", "n", "a", "n">>,
      <<"1", ".", "#", "I", "N", "D">>,
      <<"1", ".", "#", "Q", "N", "A", "N">>,
      <<"<", "N", "A", ">">>,
      <<"N", "/", "A">>,
      <<"N", "A">>,
      <<"N", "U", "L", "L">>,
      <<"N", "a", "N">>,
      <<"N", "o", "n", "e">>,
      <<"n", "/", "a">>,
      <<"n", "a", "n">>,
      <<"n", "u", "l", "l">> }

\* One cell as pd.read_excel delivers it: an empty cell and a text cell
\* holding a default NA string are both missing.
SanitizeCell(c) == IF c.k = "str" /\ c.s \in DefaultNaValues THEN NA ELSE c

\* pd.read_excel(..., header=None): every sheet row is a data row with index
\* 0, 1, ...; the columns are labelled 0 .. n-1.
ReadExcel(sheet) ==
    LET ncols == IF sheet = <<>> THEN 0 ELSE Len(sheet[1])
    IN  Frame([j \in 1..ncols |-> j - 1],
              [i \in 1..Len(sheet) |->
                  [idx |-> i - 1,
                   v |-> [l \in 0..(ncols - 1) |-> SanitizeCell(sheet[i][l + 1])]]])

\* ------------------------------------------------------------ load_and_process_data
expected_excel_headers == <<"PRODUCTO", "CAJA APROX", "MARCA", "UBICACION">>

\* Faulty variant: the lenient check (at least the declared number of columns).
ColumnCountOk_AtLeast(raw) == Len(raw.columns) >= Len(expected_excel_headers)

\* The column-count test of the load: TRUE when the load goes on.
ColumnCountOk(raw) == Len(raw.columns) = Len(expected_excel_headers)

\* df_raw.columns = expected_excel_headers
SetColumns(raw, names) ==
    Frame(names,
          [i \in 1..Len(raw.rows) |->
              [idx |-> raw.rows[i].idx,
               v |-> [h \in SeqRange(names) |->
                        raw.rows[i].v[raw.columns[CHOOSE j \in 1..Len(names) : names[j] = h]]]]])

\* df_raw.iloc[1:].copy()
ILocFrom1(f) == Frame(f.columns, SubSeq(f.rows, 2, Len(f.rows)))

column_mapping ==
    [h \in {"PRODUCTO", "CAJA APROX", "MARCA", "UBICACION"} |->
        CASE h = "PRODUCTO"   -> "Producto"
          [] h = "CAJA APROX" -> "Cajas disponibles"
          [] h = "MARCA"      -> "Marca"
          [] h = "UBICACION"  -> "Ubicacion"]

MapColumn(h) == IF h \in DOMAIN column_mapping THEN column_mapping[h] ELSE h

\* df.rename(columns=column_mapping)
Rename(f) ==
    Frame([j \in 1..Len(f.columns) |-> MapColumn(f.columns[j])],
          [i \in 1..Len(f.rows) |->
              [idx |-> f.rows[i].idx,
               v |-> [c \in {MapColumn(h) : h \in SeqRange(f.columns)} |->
                        f.rows[i].v[CHOOSE h \in SeqRange(f.columns) : MapColumn(h) = c]]]])

required_final_cols == <<"Producto", "Cajas disponibles", "Marca", "Ubicacion">>

missing_cols(f) ==
    SelectSeq(required_final_cols, LAMBDA col : col \notin SeqRange(f.columns))

\* Series.astype(str) on one cell.  A missing cell becomes the text "nan"
\* with pandas < 3 and stays missing with pandas >= 3 (keepsNA).
AsTypeStr(c, keepsNA) ==
    CASE c.k = "str" -> c
      [] c.k = "num" -> Str(IntToText(c.n))
      [] c.k = "na"  -> IF keepsNA THEN NA ELSE Str(<<"n", "a", "n">>)
      [] OTHER       -> Str(<<"i", "n", "f">>)

\* Faulty variant: .str.upper() left out.
StandardizeCell_NoUpper(c, keepsNA) ==
    LET t == AsTypeStr(c, keepsNA)
    IN  IF IsNA(t) THEN NA ELSE Str(Strip(t.s))

\* .astype(str).str.strip().str.upper() on one cell.
StandardizeCell(c, keepsNA) ==
    LET t == AsTypeStr(c, keepsNA)
    IN  IF IsNA(t) THEN NA ELSE Str(Upper(Strip(t.s)))

TextCols == {"Producto", "Marca", "Ubicacion"}

\* Lines 65-67: the three text columns are replaced by their standard form.
Standardize(f, keepsNA) ==
    Frame(f.columns,
          [i \in 1..Len(f.rows) |->
              [idx |-> f.rows[i].idx,
               v |-> [c \in DOMAIN f.rows[i].v |->
                        IF c \in TextCols
                        THEN StandardizeCell(f.rows[i].v[c], keepsNA)
                        ELSE f.rows[i].v[c]]]])

DropSubset == {"Producto", "Marca", "Ubicacion", "Cajas disponibles"}

\* df.dropna(subset=[...], inplace=True)
DropNa(f) ==
    Frame(f.columns,
          SelectSeq(f.rows, LAMBDA r : \A c \in DropSubset : ~IsNA(r.v[c])))

\* pd.to_numeric(..., errors='coerce') on one cell.
ToNumeric(c) ==
    CASE c.k = "num" -> c
      [] c.k = "na"  -> NA
      [] c.k = "inf" -> Inf
      [] OTHER ->
           LET t == Strip(c.s)
               signed == t # <<>> /\ Head(t) \in {"-", "+"}
               body == IF signed THEN Tail(t) ELSE t
           IN  IF AllDigits(body)
               THEN Num(IF signed /\ Head(t) = "-"
                        THEN 0 - DigitsToNat(body, 0) ELSE DigitsToNat(body, 0))
               ELSE IF Lower(body) \in {<<"i", "n", "f">>,
                                        <<"i", "n", "f", "i", "n", "i", "t", "y">>}
               THEN Inf
               ELSE NA

\* .fillna(0) on one cell.
FillNa0(c) == IF IsNA(c) THEN Num(0) ELSE c

\* pd.to_numeric(col, errors='coerce').fillna(0) on one cell.
CoerceCell(c) == FillNa0(ToNumeric(c))

\* .astype(int) raises on a value that is not finite.
AsTypeIntRaises(f) ==
    \E i \in 1..Len(f.rows) : CoerceCell(f.rows[i].v["Cajas disponibles"]).k = "inf"

\* Line 77 when it does not raise.
Coerce(f) ==
    Frame(f.columns,
          [i \in 1..Len(f.rows) |->
              [idx |-> f.rows[i].idx,
               v |-> [c \in DOMAIN f.rows[i].v |->
                        IF c = "Cajas disponibles"
                        THEN CoerceCell(f.rows[i].v[c])
                        ELSE f.rows[i].v[c]]]])

\* ------------------------------------------------------------ filter and aggregate
\* The sentinel option of the three select boxes.
Todos == <<"T", "o", "d", "o", "s">>

\* df_filtrado[df_filtrado[col] == seleccion] when seleccion is not the
\* sentinel; the frame itself otherwise.
FilterBy(f, col, seleccion) ==
    IF seleccion # Todos
    THEN Frame(f.columns, SelectSeq(f.rows, LAMBDA r : r.v[col] = Str(seleccion)))
    ELSE f

\* Faulty variant: the location filter tests the brand column.
FilterFrame_WrongColumn(f, marca, ubicacion, producto) ==
    FilterBy(FilterBy(FilterBy(f, "Marca", marca), "Marca", ubicacion),
             "Producto", producto)

\* Lines 136-142: the three filters, one after the other.
FilterFrame(f, marca, ubicacion, producto) ==
    FilterBy(FilterBy(FilterBy(f, "Marca", marca), "Ubicacion", ubicacion),
             "Producto", producto)

\* The group key of a row: its cells in the grouping columns.
KeyOf(r, cols) == [j \in 1..Len(cols) |-> r.v[cols[j]]]

\* Order of two group keys: lexicographic over the key columns.
RECURSIVE KeyLess(_, _)
KeyLess(a, b) ==
    IF a = <<>> THEN FALSE
    ELSE IF Head(a) = Head(b) THEN KeyLess(Tail(a), Tail(b))
    ELSE TextLess(Head(a).s, Head(b).s)

\* The keys of a set in ascending order (groupby sorts its groups).
RECURSIVE SortKeys(_)
SortKeys(keys) ==
    IF keys = {} THEN <<>>
    ELSE LET least == CHOOSE a \in keys : \A b \in keys \ {a} : KeyLess(a, b)
         IN  <<least>> \o SortKeys(keys \ {least})

\* Series.sum() of the quantity column over a sequence of rows.
RECURSIVE SumCajas(_)
SumCajas(rows) ==
    IF rows = <<>> THEN 0
    ELSE Head(rows).v["Cajas disponibles"].n + SumCajas(Tail(rows))

\* Faulty variant: .first() in place of .sum().
GroupBySum_First(f, cols) ==
    LET keyed == SelectSeq(f.rows, LAMBDA r : \A j \in 1..Len(cols) : ~IsNA(r.v[cols[j]]))
        keys == SortKeys({KeyOf(keyed[i], cols) : i \in 1..Len(keyed)})
    IN  [g \in 1..Len(keys) |->
            [key |-> keys[g],
             total |-> Head(SelectSeq(keyed, LAMBDA r : KeyOf(r, cols) = keys[g]))
                           .v["Cajas disponibles"].n]]

\* f.groupby(cols)['Cajas disponibles'].sum().reset_index(): one entry per
\* distinct key, in ascending key order; rows with a missing key are left out.
GroupBySum(f, cols) ==
    LET keyed == SelectSeq(f.rows, LAMBDA r : \A j \in 1..Len(cols) : ~IsNA(r.v[cols[j]]))
        keys == SortKeys({KeyOf(keyed[i], cols) : i \in 1..Len(keyed)})
    IN  [g \in 1..Len(keys) |->
            [key |-> keys[g],
             total |-> SumCajas(SelectSeq(keyed, LAMBDA r : KeyOf(r, cols) = keys[g]))]]

Bijections(n) == {p \in [1..n -> 1..n] : \A i, j \in 1..n : p[i] = p[j] => i = j}

IsDescending(view) == \A i \in 1..(Len(view) - 1) : view[i].total >= view[i + 1].total

\* Faulty variant: ascending=True.
SortValuesDesc_Ascending(view) ==
    {s \in {[i \in 1..Len(view) |-> view[p[i]]] : p \in Bijections(Len(view))} :
        \A i \in 1..(Len(s) - 1) : s[i].total <= s[i + 1].total}

\* The results .sort_values(total, ascending=False) can give: every
\* reordering of the view with non-increasing totals.  The default sort kind
\* (quicksort) is not stable, so entries with equal totals come in any order.
SortValuesDesc(view) ==
    {s \in {[i \in 1..Len(view) |-> view[p[i]]] : p \in Bijections(Len(view))} :
        IsDescending(s)}

\* The texts of a set in ascending order: sorted(...).
RECURSIVE SortedTexts(_)
SortedTexts(texts) ==
    IF texts = {} THEN <<>>
    ELSE LET least == CHOOSE a \in texts : \A b \in texts \ {a} : TextLess(a, b)
         IN  <<least>> \o SortedTexts(texts \ {least})

\* df[col].unique() as a set of texts.
Unique(f, col) == {f.rows[i].v[col].s : i \in 1..Len(f.rows)}

TopN == 10

\* .head(n)
HeadN(view, n) == SubSeq(view, 1, IF Len(view) < n THEN Len(view) ELSE n)

\* ------------------------------------------------------------ inputs
HeaderRow ==
    << Str(<<"P", "R", "O", "D", "U", "C", "T", "O">>),
       Str(<<"C", "A", "J", "A", " ", "A", "P", "R", "O", "X">>),
       Str(<<"M", "A", "R", "C", "A">>),
       Str(<<"U", "B", "I", "C", "A", "C", "I", "O", "N">>) >>

\* What a column beyond the fourth holds.
ExtraCell == Str(<<"x">>)

\* The data rows workbooks are made of: plain rows, rows that differ in case
\* and blanks only, equal quantities, and every kind of odd cell.
SampleRows ==
    { << Str(<<"a">>),           Num(3),                Str(<<"m">>),      Str(<<"u">>) >>,
      << Str(<<" ", "A", " ">>), Str(<<"3">>),          Str(<<"M">>),      Str(<<"u">>) >>,
      << Str(<<"b">>),           Num(3),                Str(<<"k">>),      Str(<<"v">>) >>,
      << NA,                     Num(2),                Str(<<"m">>),      Str(<<"u">>) >>,
      << Str(<<"a">>),           Num(-2),               Str(<<"k">>),      Str(<<"u">>) >>,
      << Str(<<"b">>),           Str(<<"N", "/", "A">>), Str(<<"m">>),     Str(<<"v">>) >>,
      << Str(<<"a">>),           Str(<<"x">>),          Str(<<"k">>),      Str(<<"v">>) >>,
      << Str(<<" ">>),           Num(1),                Str(<<"m">>),      Str(<<"v">>) >>,
      << Str(<<"b">>),           NA,                    Str(<<"k">>),      Str(<<"u">>) >>,
      << Str(<<"a">>),           Num(1),                NA,                Str(<<"u">>) >>,
      << Str(<<"a">>),           Num(1),                Str(<<"m">>),      NA >>,
      << Str(<<"b">>),           Str(<<"i", "n", "f">>), Str(<<"m">>),     Str(<<"u">>) >>,
      << Num(7),                 Num(5),                Str(<<" ", "k">>), Str(<<" ">>) >> }

\* A row cut or padded to ncols columns.
Resize(row, ncols) == [j \in 1..ncols |-> IF j <= Len(row) THEN row[j] ELSE ExtraCell]

\* The sheets of the published workbook: the empty sheet, and a header row
\* followed by up to MaxRows data rows, 1 to MaxCols columns wide.
Sheets ==
    {<<>>} \cup
    UNION { UNION { { <<Resize(HeaderRow, ncols)>> \o [i \in 1..n |-> Resize(rows[i], ncols)] :
                        rows \in [1..n -> SampleRows] } :
                    n \in 0..MaxRows } :
            ncols \in 1..MaxCols }

\* ------------------------------------------------------------ state
VARIABLES
    pc,                     \* where the script run is
    astype_str_keeps_na,    \* the pandas build: astype(str) keeps a missing value
    content,                \* response.content: [valid, sheet]
    df_raw,                 \* the frame read_excel returned
    df_load,                \* df inside load_and_process_data
    outcomes,               \* how the load ended: the outcomes it reported
    error_detail,           \* what the column-count message reports
    df,                     \* df of the script: what the load returned
    orden_marcas,
    df_marcas_ordenadas,
    marcas_disponibles,
    ubicaciones_disponibles,
    productos_disponibles,
    marca_seleccionada,
    ubicacion_seleccionada,
    producto_seleccionado,
    df_filtrado,
    shown,                  \* the views this run has computed
    df_ubicacion_total_filtrado,
    df_marca_total_filtrado,
    df_producto_total_filtrado,
    df_agrupado,
    top_10_productos,
    df_resumen_producto

loadVars == <<content, df_raw, df_load, outcomes, error_detail, df>>

widgetVars ==
    <<orden_marcas, df_marcas_ordenadas, marcas_disponibles, ubicaciones_disponibles,
      productos_disponibles, marca_seleccionada, ubicacion_seleccionada,
      producto_seleccionado>>

viewVars ==
    <<shown, df_ubicacion_total_filtrado, df_marca_total_filtrado,
      df_producto_total_filtrado, df_agrupado, top_10_productos, df_resumen_producto>>

vars == <<pc, astype_str_keeps_na, loadVars, widgetVars, df_filtrado, viewVars>>

\* The state a script run starts in.
Fresh ==
    /\ pc = "start"
    /\ content = None
    /\ df_raw = None
    /\ df_load = None
    /\ outcomes = {}
    /\ error_detail = None
    /\ df = None
    /\ orden_marcas = "none"
    /\ df_marcas_ordenadas = <<>>
    /\ marcas_disponibles = <<>>
    /\ ubicaciones_disponibles = <<>>
    /\ productos_disponibles = <<>>
    /\ marca_seleccionada = <<>>
    /\ ubicacion_seleccionada = <<>>
    /\ producto_seleccionado = <<>>
    /\ df_filtrado = None
    /\ shown = {}
    /\ df_ubicacion_total_filtrado = <<>>
    /\ df_marca_total_filtrado = <<>>
    /\ df_producto_total_filtrado = <<>>
    /\ df_agrupado = <<>>
    /\ top_10_productos = <<>>
    /\ df_resumen_producto = <<>>

Init == Fresh /\ astype_str_keeps_na \in BOOLEAN

\* st.stop() after an error or warning message: the run ends here.  The
\* exception st.stop() raises derives from BaseException, so the except
\* clauses of lines 82 and 86 do not catch it.
Stop(kind) ==
    /\ pc' = "stopped"
    /\ outcomes' = outcomes \cup {kind}

\* Lines 22-23, request failed: requests.get or raise_for_status raises a
\* RequestException; lines 82-85 report it and stop.
FetchFails ==
    /\ pc = "start"
    /\ Stop("http_error")
    /\ UNCHANGED <<astype_str_keeps_na, content, df_raw, df_load, error_detail, df,
                   widgetVars, df_filtrado, viewVars>>

\* Lines 22-23, request answered: the payload is a workbook or anything else.
Fetch ==
    /\ pc = "start"
    /\ \/ \E sheet \in Sheets : content' = [valid |-> TRUE, sheet |-> sheet]
       \/ content' = [valid |-> FALSE, sheet |-> <<>>]
    /\ pc' = "fetched"
    /\ UNCHANGED <<astype_str_keeps_na, df_raw, df_load, outcomes, error_detail, df,
                   widgetVars, df_filtrado, viewVars>>

\* Line 27: pd.read_excel; a payload that is no workbook raises, and lines
\* 86-89 report it and stop.
ReadExcelStep ==
    /\ pc = "fetched"
    /\ IF content.valid
       THEN /\ df_raw' = ReadExcel(content.sheet)
            /\ pc' = "read"
            /\ UNCHANGED outcomes
       ELSE /\ Stop("unexpected_error")
            /\ UNCHANGED df_raw
    /\ UNCHANGED <<astype_str_keeps_na, content, df_load, error_detail, df,
                   widgetVars, df_filtrado, viewVars>>

\* Lines 33-36: the column-count check.
CheckColumnCount ==
    /\ pc = "read"
    /\ IF ColumnCountOk(df_raw)
       THEN /\ pc' = "counted"
            /\ UNCHANGED <<outcomes, error_detail>>
       ELSE /\ Stop("column_count_error")
            /\ error_detail' = [actual |-> Len(df_raw.columns),
                                expected |-> Len(expected_excel_headers)]
    /\ UNCHANGED <<astype_str_keeps_na, content, df_raw, df_load, df,
                   widgetVars, df_filtrado, viewVars>>

\* Lines 39-51: bind the headers, drop row 0, rename.
BindHeaders ==
    /\ pc = "counted"
    /\ df_raw' = SetColumns(df_raw, expected_excel_headers)
    /\ df_load' = Rename(ILocFrom1(df_raw'))
    /\ pc' = "bound"
    /\ UNCHANGED <<astype_str_keeps_na, content, outcomes, error_detail, df,
                   widgetVars, df_filtrado, viewVars>>

\* Lines 54-61: the required columns after the rename.
ValidateSchema ==
    /\ pc = "bound"
    /\ IF missing_cols(df_load) # <<>>
       THEN Stop("missing_columns_error")
       ELSE /\ pc' = "validated"
            /\ UNCHANGED outcomes
    /\ UNCHANGED <<astype_str_keeps_na, content, df_raw, df_load, error_detail, df,
                   widgetVars, df_filtrado, viewVars>>

\* Lines 65-67.
StandardizeStep ==
    /\ pc = "validated"
    /\ df_load' = Standardize(df_load, astype_str_keeps_na)
    /\ pc' = "standardized"
    /\ UNCHANGED <<astype_str_keeps_na, content, df_raw, outcomes, error_detail, df,
                   widgetVars, df_filtrado, viewVars>>

\* Faulty variant: the warning of the empty check is shown but the run is not stopped.
DropNaStep_NoStop ==
    /\ pc = "standardized"
    /\ df_load' = DropNa(df_load)
    /\ IF df_load'.rows = <<>>
       THEN outcomes' = outcomes \cup {"empty_error"}
       ELSE UNCHANGED outcomes
    /\ pc' = "cleaned"
    /\ UNCHANGED <<astype_str_keeps_na, content, df_raw, error_detail, df,
                   widgetVars, df_filtrado, viewVars>>

\* Lines 70-73: dropna in place, then the empty check.
DropNaStep ==
    /\ pc = "standardized"
    /\ df_load' = DropNa(df_load)
    /\ IF df_load'.rows = <<>>
       THEN Stop("empty_error")
       ELSE /\ pc' = "cleaned"
            /\ UNCHANGED outcomes
    /\ UNCHANGED <<astype_str_keeps_na, content, df_raw, error_detail, df,
                   widgetVars, df_filtrado, viewVars>>

\* Lines 77-80 and 92: coerce the quantity column and return the frame; a
\* quantity that is not finite makes astype(int) raise (lines 86-89).
CoerceStep ==
    /\ pc = "cleaned"
    /\ IF AsTypeIntRaises(df_load)
       THEN /\ Stop("unexpected_error")
            /\ UNCHANGED <<df_load, df>>
       ELSE /\ df_load' = Coerce(df_load)
            /\ df' = df_load'
            /\ outcomes' = outcomes \cup {"success"}
            /\ pc' = "loaded"
    /\ UNCHANGED <<astype_str_keeps_na, content, df_raw, error_detail,
                   widgetVars, df_filtrado, viewVars>>

\* ------------------------------------------------------------ the dashboard
PorCantidad == "Por Cantidad Total de Cajas (Mayor a Menor)"

Alfabetico == "Alfabetico"

\* The texts of column `pos` of the keys of a view, in the view's order.
KeyTexts(view, pos) == [g \in 1..Len(view) |-> view[g].key[pos].s]

\* Lines 100-130: the radio and the three select boxes.  Each select box
\* offers the sentinel and the values of its column; the user picks one.
ReadWidgets ==
    /\ pc = "loaded"
    /\ \/ /\ orden_marcas' = PorCantidad
          /\ \E ordenadas \in SortValuesDesc(GroupBySum(df, <<"Marca">>)) :
                /\ df_marcas_ordenadas' = ordenadas
                /\ marcas_disponibles' = <<Todos>> \o KeyTexts(ordenadas, 1)
       \/ /\ orden_marcas' = Alfabetico
          /\ marcas_disponibles' = <<Todos>> \o SortedTexts(Unique(df, "Marca"))
          /\ UNCHANGED df_marcas_ordenadas
    /\ ubicaciones_disponibles' = <<Todos>> \o SortedTexts(Unique(df, "Ubicacion"))
    /\ productos_disponibles' = <<Todos>> \o SortedTexts(Unique(df, "Producto"))
    /\ marca_seleccionada' \in SeqRange(marcas_disponibles')
    /\ ubicacion_seleccionada' \in SeqRange(ubicaciones_disponibles')
    /\ producto_seleccionado' \in SeqRange(productos_disponibles')
    /\ pc' = "selected"
    /\ UNCHANGED <<astype_str_keeps_na, loadVars, df_filtrado, viewVars>>

\* Lines 136-142.
FilterStep ==
    /\ pc = "selected"
    /\ df_filtrado' = FilterFrame(df, marca_seleccionada, ubicacion_seleccionada,
                                  producto_seleccionado)
    /\ pc' = "filtered"
    /\ UNCHANGED <<astype_str_keeps_na, loadVars, widgetVars, viewVars>>

\* Lines 146-147: nothing matches the selection; only a warning is shown.
RenderEmpty ==
    /\ pc = "filtered"
    /\ df_filtrado.rows = <<>>
    /\ pc' = "done"
    /\ UNCHANGED <<astype_str_keeps_na, loadVars, widgetVars, df_filtrado, viewVars>>

\* Lines 148-291: the aggregated views of the filtered frame.
Render ==
    /\ pc = "filtered"
    /\ df_filtrado.rows # <<>>
    /\ IF producto_seleccionado # Todos
       THEN df_ubicacion_total_filtrado' = GroupBySum(df_filtrado, <<"Ubicacion">>)
       ELSE UNCHANGED df_ubicacion_total_filtrado
    /\ IF marca_seleccionada = Todos
       THEN /\ df_marca_total_filtrado' = GroupBySum(df_filtrado, <<"Marca">>)
            /\ UNCHANGED df_producto_total_filtrado
       ELSE /\ df_producto_total_filtrado' = GroupBySum(df_filtrado, <<"Producto">>)
            /\ UNCHANGED df_marca_total_filtrado
    /\ IF producto_seleccionado = Todos
       THEN /\ df_agrupado' = GroupBySum(df_filtrado, <<"Producto", "Marca">>)
            /\ \E ordenado \in SortValuesDesc(df_agrupado') :
                  top_10_productos' = HeadN(ordenado, TopN)
       ELSE UNCHANGED <<df_agrupado, top_10_productos>>
    /\ df_resumen_producto' \in SortValuesDesc(GroupBySum(df_filtrado, <<"Producto">>))
    /\ shown' = {"df_resumen_producto"}
                \cup (IF producto_seleccionado # Todos
                      THEN {"df_ubicacion_total_filtrado"}
                      ELSE {"df_agrupado", "top_10_productos"})
                \cup (IF marca_seleccionada = Todos
                      THEN {"df_marca_total_filtrado"}
                      ELSE {"df_producto_total_filtrado"})
    /\ pc' = "done"
    /\ UNCHANGED <<astype_str_keeps_na, loadVars, widgetVars, df_filtrado>>

\* Streamlit runs the script again from the top on the next interaction.
Rerun ==
    /\ pc \in {"done", "stopped"}
    /\ pc' = "start"
    /\ content' = None
    /\ df_raw' = None
    /\ df_load' = None
    /\ outcomes' = {}
    /\ error_detail' = None
    /\ df' = None
    /\ orden_marcas' = "none"
    /\ df_marcas_ordenadas' = <<>>
    /\ marcas_disponibles' = <<>>
    /\ ubicaciones_disponibles' = <<>>
    /\ productos_disponibles' = <<>>
    /\ marca_seleccionada' = <<>>
    /\ ubicacion_seleccionada' = <<>>
    /\ producto_seleccionado' = <<>>
    /\ df_filtrado' = None
    /\ shown' = {}
    /\ df_ubicacion_total_filtrado' = <<>>
    /\ df_marca_total_filtrado' = <<>>
    /\ df_producto_total_filtrado' = <<>>
    /\ df_agrupado' = <<>>
    /\ top_10_productos' = <<>>
    /\ df_resumen_producto' = <<>>
    /\ UNCHANGED astype_str_keeps_na

Next ==
    \/ FetchFails
    \/ Fetch
    \/ ReadExcelStep
    \/ CheckColumnCount
    \/ BindHeaders
    \/ ValidateSchema
    \/ StandardizeStep
    \/ DropNaStep
    \/ CoerceStep
    \/ ReadWidgets
    \/ FilterStep
    \/ RenderEmpty
    \/ Render
    \/ Rerun

Spec == Init /\ [][Next]_vars

\* ------------------------------------------------------------ claims
\* Names used by the properties below.
ErrorOutcomes ==
    {"http_error", "unexpected_error", "column_count_error", "missing_columns_error",
     "empty_error"}

\* The load has ended, one way or the other.
LoadEnded == pc \in {"stopped", "loaded", "selected", "filtered", "done"}

\* The fetched payload is a workbook.
Workbook == content # None /\ content.valid

\* Number of columns of the sheet that was fetched.
SheetCols == IF content.sheet = <<>> THEN 0 ELSE Len(content.sheet[1])

\* C1: a workbook whose column count is not 4 ends in the column-count error,
\* which reports the actual and the expected count, with no frame bound,
\* renamed, cleaned or returned; a workbook with 4 columns never ends in it.
C1_ColumnCountError ==
    (Workbook /\ pc \notin {"start", "fetched", "read"}) =>
        IF SheetCols # 4
        THEN /\ pc = "stopped"
             /\ outcomes = {"column_count_error"}
             /\ error_detail = [actual |-> SheetCols, expected |-> 4]
             /\ df_load = None
             /\ df = None
        ELSE /\ "column_count_error" \notin outcomes
             /\ error_detail = None

\* C1 witness: a workbook with more columns than declared was refused.
C1_Witness ==
    /\ Workbook
    /\ SheetCols > 4
    /\ Len(content.sheet) > 1
    /\ outcomes = {"column_count_error"}

\* The load went past the column check, so df_raw carries the header names.
Bound == df_load # None

\* The data rows of df_raw (all rows but row 0).
RawDataRows == SubSeq(df_raw.rows, 2, Len(df_raw.rows))

\* The row of df_raw a record of the output comes from (same index label).
RawRowOf(r) == df_raw.rows[r.idx + 1]

\* The sheet row a record of the output comes from.
SheetRowOf(r) == content.sheet[r.idx + 1]

\* C2 (as claimed): when every data row of a 4-column grid has a missing
\* product cell the load ends in the empty-result outcome and returns nothing;
\* and no output record comes from a row whose product, brand or location
\* cell is missing.
C2_MissingCellsNeverLoaded ==
    (Bound /\ LoadEnded) =>
        /\ (\A i \in 1..Len(RawDataRows) : IsNA(RawDataRows[i].v["PRODUCTO"]))
               => (outcomes = {"empty_error"} /\ df = None)
        /\ df # None =>
               \A i \in 1..Len(df.rows) :
                   \A h \in {"PRODUCTO", "MARCA", "UBICACION"} :
                       ~IsNA(RawRowOf(df.rows[i]).v[h])

\* C3 (as claimed): every record of a loaded frame has a non-empty value,
\* non-empty also after trimming, in Producto, Marca and Ubicacion.
C3_RequiredTextNonEmpty ==
    df # None =>
        \A i \in 1..Len(df.rows) :
            \A c \in TextCols :
                /\ df.rows[i].v[c].k = "str"
                /\ Strip(df.rows[i].v[c].s) # <<>>

\* C4 (as claimed): every record of a loaded frame has an integer quantity
\* that is at least zero.
C4_QuantityNonNegative ==
    df # None =>
        \A i \in 1..Len(df.rows) :
            /\ df.rows[i].v["Cajas disponibles"].k = "num"
            /\ df.rows[i].v["Cajas disponibles"].n >= 0

\* A sheet cell holding text that does not parse as a number.
UnparseableText(c) == c.k = "str" /\ ToNumeric(c) = NA

\* The sheet rows whose quantity cell is unparseable text and whose product,
\* brand and location cells are filled in.
TextQuantityRows ==
    {i \in 2..Len(content.sheet) :
        /\ UnparseableText(content.sheet[i][2])
        /\ \A j \in {1, 3, 4} : ~IsNA(content.sheet[i][j])}

\* C5 (as claimed): a data row whose quantity cell holds unparseable text is
\* kept with quantity 0 and its other fields as they are standardised; it does
\* not make the load end empty.
C5_TextQuantityKeptAsZero ==
    (Workbook /\ SheetCols = 4 /\ LoadEnded /\ "unexpected_error" \notin outcomes) =>
        \A i \in TextQuantityRows :
            /\ df # None
            /\ \E k \in 1..Len(df.rows) :
                  /\ df.rows[k].idx = i - 1
                  /\ df.rows[k].v["Cajas disponibles"] = Num(0)
                  /\ df.rows[k].v["Producto"] =
                         StandardizeCell(content.sheet[i][1], astype_str_keeps_na)
                  /\ df.rows[k].v["Marca"] =
                         StandardizeCell(content.sheet[i][3], astype_str_keeps_na)
                  /\ df.rows[k].v["Ubicacion"] =
                         StandardizeCell(content.sheet[i][4], astype_str_keeps_na)

\* C6: an error outcome is terminal.  A run that reported an error has
\* stopped, holds no returned frame, has read no widget, filtered nothing and
\* built no view; a returned frame and the later steps come with success alone.
C6_ErrorsAreTerminal ==
    /\ Cardinality(outcomes) <= 1
    /\ outcomes \cap ErrorOutcomes # {} =>
           /\ pc = "stopped"
           /\ df = None
           /\ orden_marcas = "none"
           /\ df_filtrado = None
           /\ shown = {}
    /\ df # None => outcomes = {"success"}
    /\ pc \in {"loaded", "selected", "filtered", "done"} => outcomes = {"success"}

\* C6 witness: the load stopped on the empty result after it had built a
\* frame of its own, and returned nothing.
C6_Witness ==
    /\ pc = "stopped"
    /\ outcomes = {"empty_error"}
    /\ df_load # None
    /\ Len(content.sheet) > 1
    /\ df = None

\* A record satisfies the selection on one column.
Matches(r, col, seleccion) == seleccion = Todos \/ r.v[col] = Str(seleccion)

\* C7: the filtered frame holds exactly the records that equal every selection
\* that is not the sentinel, in their order; all three on the sentinel give the
\* whole frame; the loaded frame is still the one the load returned.
C7_FilterIsConjunction ==
    pc \in {"filtered", "done"} =>
        /\ df_filtrado.columns = df.columns
        /\ df_filtrado.rows =
               SelectSeq(df.rows, LAMBDA r :
                   /\ Matches(r, "Marca", marca_seleccionada)
                   /\ Matches(r, "Ubicacion", ubicacion_seleccionada)
                   /\ Matches(r, "Producto", producto_seleccionado))
        /\ (/\ marca_seleccionada = Todos
            /\ ubicacion_seleccionada = Todos
            /\ producto_seleccionado = Todos) => df_filtrado = df
        /\ df = df_load

\* C7 witness: two selections at once keep one record and leave one out.
C7_Witness ==
    /\ pc = "filtered"
    /\ marca_seleccionada # Todos
    /\ ubicacion_seleccionada # Todos
    /\ Len(df.rows) = 2
    /\ Len(df_filtrado.rows) = 1
    /\ df_filtrado.rows[1] = df.rows[2]
    /\ df.rows[1].v["Marca"] = df.rows[2].v["Marca"]

\* Sum of the totals of a view.
RECURSIVE SumTotals(_)
SumTotals(view) == IF view = <<>> THEN 0 ELSE Head(view).total + SumTotals(Tail(view))

\* Sum of the quantities of all records of a frame.
RECURSIVE TotalCajas(_)
TotalCajas(rows) ==
    IF rows = <<>> THEN 0
    ELSE TotalCajas(SubSeq(rows, 1, Len(rows) - 1)) + rows[Len(rows)].v["Cajas disponibles"].n

\* Sum of the quantities of the records of a frame that have a given key.
RECURSIVE SumOfKey(_, _, _)
SumOfKey(rows, cols, key) ==
    IF rows = <<>> THEN 0
    ELSE (IF KeyOf(Head(rows), cols) = key
          THEN Head(rows).v["Cajas disponibles"].n ELSE 0)
         + SumOfKey(Tail(rows), cols, key)

\* A view is the group-by-sum of a frame: the totals add up to the total of
\* the frame, every key of the frame appears exactly once, and each total is
\* the sum over the records that have the key.
Conserves(view, f, cols) ==
    /\ SumTotals(view) = TotalCajas(f.rows)
    /\ {view[g].key : g \in 1..Len(view)} = {KeyOf(f.rows[i], cols) : i \in 1..Len(f.rows)}
    /\ \A g, h \in 1..Len(view) : view[g].key = view[h].key => g = h
    /\ \A g \in 1..Len(view) : view[g].total = SumOfKey(f.rows, cols, view[g].key)

\* C8: every view the dashboard computes without truncation conserves the
\* total of the frame it groups.
C8_GroupBySumConserves ==
    /\ (pc \in {"selected", "filtered", "done"} /\ orden_marcas = PorCantidad) =>
           Conserves(df_marcas_ordenadas, df, <<"Marca">>)
    /\ "df_ubicacion_total_filtrado" \in shown =>
           Conserves(df_ubicacion_total_filtrado, df_filtrado, <<"Ubicacion">>)
    /\ "df_marca_total_filtrado" \in shown =>
           Conserves(df_marca_total_filtrado, df_filtrado, <<"Marca">>)
    /\ "df_producto_total_filtrado" \in shown =>
           Conserves(df_producto_total_filtrado, df_filtrado, <<"Producto">>)
    /\ "df_agrupado" \in shown =>
           Conserves(df_agrupado, df_filtrado, <<"Producto", "Marca">>)
    /\ "df_resumen_producto" \in shown =>
           Conserves(df_resumen_producto, df_filtrado, <<"Producto">>)

\* C8 witness: two records with quantities other than zero form one group of
\* the product and brand view.
C8_Witness ==
    /\ pc = "done"
    /\ "df_agrupado" \in shown
    /\ Len(df_filtrado.rows) = 2
    /\ Len(df_agrupado) = 1
    /\ \A i \in 1..2 : df_filtrado.rows[i].v["Cajas disponibles"].n > 0
    /\ SheetRowOf(df_filtrado.rows[1])[1] # SheetRowOf(df_filtrado.rows[2])[1]

\* Position of the first record of a frame that has a given key.
FirstSeen(f, cols, key) ==
    CHOOSE i \in 1..Len(f.rows) :
        /\ KeyOf(f.rows[i], cols) = key
        /\ \A j \in 1..(i - 1) : KeyOf(f.rows[j], cols) # key

\* A view is in descending order of total, and entries with equal totals are
\* in the order in which their keys are first seen in the frame.
StableDescending(view, f, cols) ==
    \A g, h \in 1..Len(view) :
        g < h =>
            \/ view[g].total > view[h].total
            \/ /\ view[g].total = view[h].total
               /\ FirstSeen(f, cols, view[g].key) < FirstSeen(f, cols, view[h].key)

\* C9 (as claimed): the brand list, the product summary and the top-10 view
\* are in descending order of total with first-seen order among equal totals.
C9_SortedStableByFirstSeen ==
    /\ (pc \in {"selected", "filtered", "done"} /\ orden_marcas = PorCantidad) =>
           StableDescending(df_marcas_ordenadas, df, <<"Marca">>)
    /\ "df_resumen_producto" \in shown =>
           StableDescending(df_resumen_producto, df_filtrado, <<"Producto">>)
    /\ "top_10_productos" \in shown =>
           StableDescending(top_10_productos, df_filtrado, <<"Producto", "Marca">>)

\* The entries of a view as a bag: how often each entry occurs.
Occurrences(view, e) == Cardinality({g \in 1..Len(view) : view[g] = e})

\* A view is a reordering of another with non-increasing totals.
DescendingReorder(sorted, view) ==
    /\ Len(sorted) = Len(view)
    /\ \A g \in 1..Len(view) : Occurrences(sorted, view[g]) = Occurrences(view, view[g])
    /\ \A g \in 1..(Len(sorted) - 1) : sorted[g].total >= sorted[g + 1].total

\* C9 (amended): the three sorted views hold the groups of their group-by-sum
\* in non-increasing order of total (the top-10 view its first ten); nothing is
\* fixed about the order of groups with equal totals.
C9_SortedDescending ==
    /\ (pc \in {"selected", "filtered", "done"} /\ orden_marcas = PorCantidad) =>
           DescendingReorder(df_marcas_ordenadas, GroupBySum(df, <<"Marca">>))
    /\ "df_resumen_producto" \in shown =>
           DescendingReorder(df_resumen_producto, GroupBySum(df_filtrado, <<"Producto">>))
    /\ "top_10_productos" \in shown =>
           /\ Len(top_10_productos) = (IF Len(df_agrupado) < 10 THEN Len(df_agrupado) ELSE 10)
           /\ \A g \in 1..(Len(top_10_productos) - 1) :
                  top_10_productos[g].total >= top_10_productos[g + 1].total
           /\ \A g \in 1..Len(top_10_productos) :
                  /\ Occurrences(top_10_productos, top_10_productos[g]) = 1
                  /\ Occurrences(df_agrupado, top_10_productos[g]) = 1
           /\ \A g \in 1..Len(df_agrupado) :
                  Occurrences(top_10_productos, df_agrupado[g]) = 0 =>
                      df_agrupado[g].total <= top_10_productos[Len(top_10_productos)].total

\* C9 witness: a sorted view puts a group with a larger total before a group
\* that comes first in key order and in the frame.
C9_Witness ==
    /\ "df_resumen_producto" \in shown
    /\ Len(df_resumen_producto) = 2
    /\ df_resumen_producto[1].total > df_resumen_producto[2].total
    /\ KeyLess(df_resumen_producto[2].key, df_resumen_producto[1].key)
    /\ FirstSeen(df_filtrado, <<"Producto">>, df_resumen_producto[2].key) = 1

\* Two sheet cells are texts that differ at most in letter case and in
\* leading or trailing blanks.
SameButCaseAndBlanks(a, b) ==
    /\ a.k = "str"
    /\ b.k = "str"
    /\ a.s \notin DefaultNaValues
    /\ b.s \notin DefaultNaValues
    /\ Upper(Strip(a.s)) = Upper(Strip(b.s))

\* Sheet column of a text column of the frame.
SheetCol(c) == CHOOSE j \in 1..Len(required_final_cols) : required_final_cols[j] = c

\* Records i and j of a frame come from sheet cells that differ in case and
\* outer blanks only, in each of the given columns.
SameSource(f, i, j, cols) ==
    \A c \in cols :
        SameButCaseAndBlanks(SheetRowOf(f.rows[i])[SheetCol(c)],
                             SheetRowOf(f.rows[j])[SheetCol(c)])

\* Records of a frame with the same source in the grouping columns are counted
\* in one and the same entry of a view of that frame.
SameGroup(view, f, cols) ==
    \A i, j \in 1..Len(f.rows) :
        SameSource(f, i, j, SeqRange(cols)) =>
            Cardinality({g \in 1..Len(view) :
                view[g].key \in {KeyOf(f.rows[i], cols), KeyOf(f.rows[j], cols)}}) = 1

\* A record of df is among the records of df_filtrado.
Kept(i) == \E k \in 1..Len(df_filtrado.rows) : df_filtrado.rows[k] = df.rows[i]

====
